---------------------------- MODULE Spec2Model ----------------------------
(***************************************************************************)
(* A model of blimpy/calib_utils/stokescal.py: Stokes derivation,          *)
(* coarse-channel averaging, noise-diode gain/phase estimation, the        *)
(* inverse Mueller correction and the calibrate_pols pipeline.             *)
(*                                                                         *)
(* Conventions                                                             *)
(*  - The file is Python 2 (print statements, lines 158-207), so `/` on    *)
(*    two ints is floor division.                                          *)
(*  - Arrays are functions over 0..n-1, indexed as in the source.          *)
(*  - A numpy float is an extended rational <<n, d>>: d > 0 is the         *)
(*    fraction n/d in lowest terms, <<1,0>> is +inf, <<-1,0>> is -inf,     *)
(*    <<0,0>> is NaN.  Division by zero follows IEEE-754 as numpy does     *)
(*    (a RuntimeWarning, never an exception).  Rounding is not modelled:   *)
(*    arithmetic on finite values is exact.                                *)
(*  - A phase is an integer multiple k of the angle g = atan2(3, 4); every *)
(*    such angle has rational cosine and sine, Re and Im of ((4+3i)/5)^k.  *)
(*  - A call returns [status, error, value]: status "ok" with a value, or  *)
(*    status "error" with the exception's name.                            *)
(*  - Line 21 reads `else if feedtype=='circular':`, which the Python      *)
(*    grammar rejects (SyntaxError).  Every other line is modelled as      *)
(*    written; the branch headed by line 21 has the outcome SyntaxError.   *)
(***************************************************************************)
EXTENDS Integers, Sequences, FiniteSets, TLC

VARIABLES
    called,     \* the function entered by the last call, "none" before it
    args,       \* the arguments of the call
    ret,        \* what the call returned or raised
    files,      \* the files written so far: a sequence of [name, data]
    pc,         \* calibrate_pols: the line group about to run
    frame,      \* calibrate_pols: its local variables, None when released
    stages,     \* calibrate_pols: the stages completed so far, in order
    world       \* calibrate_pols: what the collaborators will answer

vars == <<called, args, ret, files, pc, frame, stages, world>>

\* ------------------------------------------------------------- bounds
MaxTime == 2
MaxChan == 2
MaxFine == 8
MaxCpc == 5
MaxCoarse == 2
MaxBlock == 2

\* ---------------------------------------------------- numpy arithmetic
None == <<"None">>

Abs(x) == IF x < 0 THEN -x ELSE x

Sign(x) == IF x < 0 THEN -1 ELSE IF x > 0 THEN 1 ELSE 0

RECURSIVE GCD(_, _)
GCD(a, b) == IF b = 0 THEN a ELSE GCD(b, a % b)

\* the float n/d; d = 0 gives the IEEE special value of the sign of n
Norm(n, d) ==
    IF d = 0 THEN <<Sign(n), 0>>
    ELSE LET g == GCD(Abs(n), Abs(d))
             s == IF d < 0 THEN -1 ELSE 1
         IN  <<(s * n) \div g, (s * d) \div g>>

Rat(n) == <<n, 1>>
NaN == <<0, 0>>
IsNaN(x) == x = NaN
IsInf(x) == x[2] = 0 /\ x[1] # 0
IsFinite(x) == x[2] > 0

RNeg(a) == <<-a[1], a[2]>>

RAdd(a, b) ==
    IF IsNaN(a) \/ IsNaN(b) THEN NaN
    ELSE IF IsInf(a) THEN (IF IsInf(b) /\ b[1] # a[1] THEN NaN ELSE a)
    ELSE IF IsInf(b) THEN b
    ELSE Norm(a[1] * b[2] + b[1] * a[2], a[2] * b[2])

RSub(a, b) == RAdd(a, RNeg(b))

RMul(a, b) ==
    IF IsNaN(a) \/ IsNaN(b) THEN NaN
    ELSE IF IsInf(a) \/ IsInf(b) THEN <<Sign(a[1]) * Sign(b[1]), 0>>
    ELSE Norm(a[1] * b[1], a[2] * b[2])

RDiv(a, b) ==
    IF IsNaN(a) \/ IsNaN(b) THEN NaN
    ELSE IF IsInf(b) THEN (IF IsInf(a) THEN NaN ELSE Rat(0))
    ELSE IF IsInf(a) THEN <<a[1] * (IF b[1] < 0 THEN -1 ELSE 1), 0>>
    ELSE IF b[1] = 0 THEN <<Sign(a[1]), 0>>
    ELSE Norm(a[1] * b[2], a[2] * b[1])

\* ------------------------------------------------------------ results
Ok(v) == [status |-> "ok", error |-> "", value |-> v]
Raise(e) == [status |-> "error", error |-> e, value |-> None]
NoCall == [status |-> "none", error |-> "", value |-> None]

\* ---------------------------------------------------------- get_stokes
StokesSum(a, b) == RAdd(a, b)
StokesDiff(a, b) == RSub(a, b)
StokesTwice(a, b) == RMul(Rat(2), a)
StokesMinusTwice(a, b) == RMul(Rat(-2), a)

StokesCell(op, a, b) ==
    CASE op = "sum" -> StokesSum(a, b)
      [] op = "diff" -> StokesDiff(a, b)
      [] op = "twice" -> StokesTwice(a, b)
      [] op = "minus_twice" -> StokesMinusTwice(a, b)

\* cross_dat[:,p,:] op cross_dat[:,q,:], then np.expand_dims(.., axis=1)
Plane(cross_dat, op, p, q) ==
    [t \in DOMAIN cross_dat |->
        [z \in {0} |->
            [f \in DOMAIN cross_dat[t][p] |->
                StokesCell(op, cross_dat[t][p][f], cross_dat[t][q][f])]]]

\* get_stokes without the final else: an unknown feed is read as linear
get_stokes_unchecked(cross_dat, feedtype) ==
    IF feedtype = "circular"
    THEN Raise("SyntaxError")
    ELSE Ok(<<Plane(cross_dat, "sum", 0, 1),
              Plane(cross_dat, "diff", 0, 1),
              Plane(cross_dat, "twice", 2, 2),
              Plane(cross_dat, "minus_twice", 3, 3)>>)

get_stokes(cross_dat, feedtype) ==
    IF feedtype = "linear"
    THEN Ok(<<Plane(cross_dat, "sum", 0, 1),
              Plane(cross_dat, "diff", 0, 1),
              Plane(cross_dat, "twice", 2, 2),
              Plane(cross_dat, "minus_twice", 3, 3)>>)
    ELSE IF feedtype = "circular"
    THEN Raise("SyntaxError")
    ELSE Raise("ValueError")

\* ------------------------------------------------------------ fracpols
ArrDiv(a, b) ==
    [t \in DOMAIN a |-> [z \in DOMAIN a[t] |-> [f \in DOMAIN a[t][z] |->
        RDiv(a[t][z][f], b[t][z][f])]]]

\* I,Q,U,V,L = get_stokes(...): the tuple must hold exactly five values
fracpols(str, feedtype) ==
    LET r == get_stokes(str, feedtype) IN
    IF r.status # "ok" THEN r
    ELSE IF Len(r.value) # 5 THEN Raise("ValueError")
    ELSE Ok(<<ArrDiv(r.value[5], r.value[1]), ArrDiv(r.value[4], r.value[1])>>)

\* the files write_polfils leaves behind, after those already in fs
write_polfils(str, feedtype, fs) ==
    LET r == fracpols(str, feedtype) IN
    IF r.status # "ok" THEN [ret |-> r, files |-> fs]
    ELSE [ret |-> Ok(None),
          files |-> fs \o <<[name |-> ".linpol.fil", data |-> r.value[1]],
                            [name |-> ".circpol.fil", data |-> r.value[2]]>>]

\* ------------------------------------------- inputs of the Stokes calls
\* the four products (p0, p1, p2, p3) one (time, channel) cell may hold
Pixels == << <<1, 2, 3, 4>>, <<5, 3, 0, 0>>, <<0, 7, -2, 6>> >>

Feedtypes == {"linear", "circular", "hyptrig"}

\* the cube of shape (T, 4, N) whose cell (t, f) holds pixel a*t + b*f + c
CubeOf(T, N, a, b, c) ==
    [t \in 0..(T - 1) |-> [p \in 0..3 |-> [f \in 0..(N - 1) |->
        Rat(Pixels[((a * t + b * f + c) % Len(Pixels)) + 1][p + 1])]]]

Cubes ==
    { CubeOf(T, N, a, b, c) :
        T \in 1..MaxTime, N \in 1..MaxChan,
        a \in 0..(Len(Pixels) - 1), b \in 0..(Len(Pixels) - 1),
        c \in 0..(Len(Pixels) - 1) }

Idle == /\ pc = "idle"
        /\ frame = None
        /\ stages = <<>>
        /\ world = None

InitStokes ==
    /\ called = "none"
    /\ args \in [cross_dat : Cubes, feedtype : Feedtypes]
    /\ ret = NoCall
    /\ files = <<>>
    /\ Idle

CallGetStokes ==
    /\ called = "none"
    /\ called' = "get_stokes"
    /\ ret' = get_stokes(args.cross_dat, args.feedtype)
    /\ UNCHANGED <<args, files, pc, frame, stages, world>>

CallFracpols ==
    /\ called = "none"
    /\ called' = "fracpols"
    /\ ret' = fracpols(args.cross_dat, args.feedtype)
    /\ UNCHANGED <<args, files, pc, frame, stages, world>>

CallWritePolfils ==
    /\ called = "none"
    /\ called' = "write_polfils"
    /\ LET w == write_polfils(args.cross_dat, args.feedtype, files) IN
          /\ ret' = w.ret
          /\ files' = w.files
    /\ UNCHANGED <<args, pc, frame, stages, world>>

NextStokes == CallGetStokes \/ CallFracpols \/ CallWritePolfils

SpecStokes == InitStokes /\ [][NextStokes]_vars

\* --------------------------------------------------- convert_to_coarse
Size(a) == Cardinality(DOMAIN a)

RECURSIVE SumTo(_, _)
\* row[0] + ... + row[n-1]
SumTo(row, n) == IF n = 0 THEN Rat(0) ELSE RAdd(SumTo(row, n - 1), row[n - 1])

\* np.reshape(data, (rows, cols)) in C order
Reshape2(data, rows, cols) ==
    [c \in 0..(rows - 1) |-> [k \in 0..(cols - 1) |-> data[c * cols + k]]]

\* the slice that keeps the last element: a[lo:] instead of a[lo:hi]
SliceRow_keep_last(row, lo, hi) ==
    LET n == Size(row)
        m == IF n > lo THEN n - lo ELSE 0
    IN  [k \in 0..(m - 1) |-> row[lo + k]]

\* a[lo:hi] of a row of length n, with Python's reading of a negative stop
SliceRow(row, lo, hi) ==
    LET n    == Size(row)
        stop == IF hi < 0 THEN (IF n + hi < 0 THEN 0 ELSE n + hi) ELSE hi
        m    == IF stop > lo THEN stop - lo ELSE 0
    IN  [k \in 0..(m - 1) |-> row[lo + k]]

\* np.mean over one row: the mean of an empty row is 0/0 = NaN
MeanRow(row) == RDiv(SumTo(row, Size(row)), Rat(Size(row)))

convert_to_coarse(data, chan_per_coarse) ==
    IF chan_per_coarse = 0 THEN Raise("ZeroDivisionError")
    ELSE LET num_coarse == Size(data) \div chan_per_coarse IN
         IF num_coarse * chan_per_coarse # Size(data) THEN Raise("ValueError")
         ELSE LET data_shaped == Reshape2(data, num_coarse, chan_per_coarse) IN
              Ok([c \in 0..(num_coarse - 1) |->
                     MeanRow(SliceRow(data_shaped[c], 2, -1))])

\* ------------------------------------------ inputs of convert_to_coarse
FineValues == { Rat(0), Rat(1) }

FineArrays == UNION { [0..(n - 1) -> FineValues] : n \in 1..MaxFine }

InitCoarse ==
    /\ called = "none"
    /\ args \in [data : FineArrays, chan_per_coarse : 0..MaxCpc]
    /\ ret = NoCall
    /\ files = <<>>
    /\ Idle

CallConvertToCoarse ==
    /\ called = "none"
    /\ called' = "convert_to_coarse"
    /\ ret' = convert_to_coarse(args.data, args.chan_per_coarse)
    /\ UNCHANGED <<args, files, pc, frame, stages, world>>

NextCoarse == CallConvertToCoarse

SpecCoarse == InitCoarse /\ [][NextCoarse]_vars

\* ------------------------------------------------------- apply_Mueller
RECURSIVE CisPow(_)
\* <<Re, Im, 5^k>> of (4 + 3i)^k, k >= 0
CisPow(k) ==
    IF k = 0 THEN <<1, 0, 1>>
    ELSE LET r == CisPow(k - 1) IN
         <<4 * r[1] - 3 * r[2], 3 * r[1] + 4 * r[2], 5 * r[3]>>

\* np.cos and np.sin of the phase p (in units of atan2(3, 4)); of a NaN or
\* an infinite phase both are NaN
NpCos(p) ==
    CASE ~IsFinite(p) -> NaN
      [] p[2] = 1 -> LET r == CisPow(Abs(p[1])) IN Norm(r[1], r[3])

NpSin(p) ==
    CASE ~IsFinite(p) -> NaN
      [] p[2] = 1 -> LET r == CisPow(Abs(p[1])) IN Norm(Sign(p[1]) * r[2], r[3])

\* the reshape with the two new axes read in the other order, so that fine
\* channel f lands in coarse channel f mod ncoarse
Reshape4_interleaved(X, ncoarse, chan_per_coarse) ==
    [t \in DOMAIN X |-> [z \in DOMAIN X[t] |->
        [c \in 0..(ncoarse - 1) |-> [k \in 0..(chan_per_coarse - 1) |->
            X[t][z][k * ncoarse + c]]]]]

\* np.reshape(X, (ax0, ax1, ncoarse, chan_per_coarse))
Reshape4(X, ncoarse, chan_per_coarse) ==
    [t \in DOMAIN X |-> [z \in DOMAIN X[t] |->
        [c \in 0..(ncoarse - 1) |-> [k \in 0..(chan_per_coarse - 1) |->
            X[t][z][c * chan_per_coarse + k]]]]]

\* np.swapaxes(X, 2, 3)
SwapAxes23(X) ==
    [t \in DOMAIN X |-> [z \in DOMAIN X[t] |->
        LET d2 == DOMAIN X[t][z]
            d3 == IF d2 = {} THEN {} ELSE DOMAIN X[t][z][0]
        IN  [k \in d3 |-> [c \in d2 |-> X[t][z][c][k]]]]]

\* np.reshape(X, shape) of a 4-d array of dimensions (ax0, ax1, n2, n3)
ReshapeBack(X, n2, n3) ==
    [t \in DOMAIN X |-> [z \in DOMAIN X[t] |->
        [f \in 0..(n2 * n3 - 1) |-> X[t][z][f \div n3][f % n3]]]]

\* a 1-d array v broadcast against the last axis of a 4-d array
Bcast(v, j) == IF Size(v) = 1 THEN v[0] ELSE v[j]

MuellerA(g) == RDiv(Rat(1), RSub(Rat(1), RMul(g, g)))

MuellerI(i, q, g, p) == RMul(MuellerA(g), RSub(i, RMul(g, q)))

MuellerQ(i, q, g, p) ==
    RMul(MuellerA(g), RAdd(RMul(RMul(Rat(-1), g), i), q))

\* the rotation applied the wrong way round
MuellerU_forward(u, v, g, p) == RSub(RMul(u, NpCos(p)), RMul(v, NpSin(p)))

MuellerU(u, v, g, p) == RAdd(RMul(u, NpCos(p)), RMul(v, NpSin(p)))

MuellerV(u, v, g, p) ==
    RAdd(RMul(RMul(Rat(-1), u), NpSin(p)), RMul(v, NpCos(p)))

MuellerCell(out, x, y, g, p) ==
    CASE out = "I" -> MuellerI(x, y, g, p)
      [] out = "Q" -> MuellerQ(x, y, g, p)
      [] out = "U" -> MuellerU(x, y, g, p)
      [] out = "V" -> MuellerV(x, y, g, p)

\* elementwise over two 4-d arrays and two 1-d arrays that broadcast along
\* the last axis
Map4(X, Y, gain, phase, out) ==
    [t \in DOMAIN X |-> [z \in DOMAIN X[t] |->
        [i \in DOMAIN X[t][z] |-> [j \in DOMAIN X[t][z][i] |->
            MuellerCell(out, X[t][z][i][j], Y[t][z][i][j],
                        Bcast(gain, j), Bcast(phase, j))]]]]

\* whether a 1-d array of length n broadcasts against a last axis of length m
Broadcasts(n, m) == n = m \/ n = 1

apply_Mueller(I, Q, U, V, gain_offsets, phase_offsets, chan_per_coarse) ==
    LET nchans == Size(I[0][0]) IN
    IF chan_per_coarse = 0 THEN Raise("ZeroDivisionError")
    ELSE LET ncoarse == nchans \div chan_per_coarse IN
         IF ncoarse * chan_per_coarse # nchans THEN Raise("ValueError")
         ELSE IF ~Broadcasts(Size(gain_offsets), ncoarse)
                 \/ ~Broadcasts(Size(phase_offsets), ncoarse)
              THEN Raise("ValueError")
         ELSE LET I4 == SwapAxes23(Reshape4(I, ncoarse, chan_per_coarse))
                  Q4 == SwapAxes23(Reshape4(Q, ncoarse, chan_per_coarse))
                  U4 == SwapAxes23(Reshape4(U, ncoarse, chan_per_coarse))
                  V4 == SwapAxes23(Reshape4(V, ncoarse, chan_per_coarse))
                  Icorr == Map4(I4, Q4, gain_offsets, phase_offsets, "I")
                  Qcorr == Map4(I4, Q4, gain_offsets, phase_offsets, "Q")
                  Ucorr == Map4(U4, V4, gain_offsets, phase_offsets, "U")
                  Vcorr == Map4(U4, V4, gain_offsets, phase_offsets, "V")
              IN  Ok(<<ReshapeBack(SwapAxes23(Icorr), ncoarse, chan_per_coarse),
                       ReshapeBack(SwapAxes23(Qcorr), ncoarse, chan_per_coarse),
                       ReshapeBack(SwapAxes23(Ucorr), ncoarse, chan_per_coarse),
                       ReshapeBack(SwapAxes23(Vcorr), ncoarse, chan_per_coarse)>>)

\* ---------------------------------------------- inputs of apply_Mueller
\* the (gain, phase) pairs one coarse channel may be given
Cals == << <<Rat(0), Rat(0)>>, <<<<1, 2>>, Rat(1)>>, <<<<-1, 3>>, Rat(-2)>>,
           <<Rat(2), Rat(1)>>, <<Rat(1), Rat(0)>>, <<Rat(-1), Rat(-2)>> >>

\* the calibration of ncoarse channels: channel c has pair first + step*c
CalOf(ncoarse, first, step) ==
    [c \in 0..(ncoarse - 1) |-> Cals[((first + step * c) % Len(Cals)) + 1]]

Seeds == {1, 2}
CalSteps == {0, 1}

\* a Stokes cube of shape (T, 1, N) whose cells all differ
SkyOf(seed, T, N) ==
    LET cube(a, b, c) ==
            [t \in 0..(T - 1) |-> [z \in {0} |-> [f \in 0..(N - 1) |->
                Rat(a * seed + b * t + c * f)]]]
    IN  <<cube(20, 7, 1), cube(-3, 2, 5), cube(1, -4, 3), cube(5, 1, -2)>>

\* the instrument's forward mixing of a sky cube: coarse channel c mixes I and
\* Q with gain[c] and rotates (U, V) by phase[c]
Forward(sky, gain, phase, chan_per_coarse) ==
    LET g(f) == gain[f \div chan_per_coarse]
        p(f) == phase[f \div chan_per_coarse]
        cell(F(_, _)) ==
            [t \in DOMAIN sky[1] |-> [z \in {0} |->
                [f \in DOMAIN sky[1][t][0] |-> F(t, f)]]]
        Io(t, f) == RAdd(sky[1][t][0][f], RMul(g(f), sky[2][t][0][f]))
        Qo(t, f) == RAdd(RMul(g(f), sky[1][t][0][f]), sky[2][t][0][f])
        Uo(t, f) == RSub(RMul(sky[3][t][0][f], NpCos(p(f))),
                         RMul(sky[4][t][0][f], NpSin(p(f))))
        Vo(t, f) == RAdd(RMul(sky[3][t][0][f], NpSin(p(f))),
                         RMul(sky[4][t][0][f], NpCos(p(f))))
    IN  <<cell(Io), cell(Qo), cell(Uo), cell(Vo)>>

InitMueller ==
    /\ called = "none"
    /\ \E T \in 1..MaxTime, ncoarse \in 1..MaxCoarse, cpc \in 1..MaxBlock,
          seed \in Seeds, mixed \in BOOLEAN :
       \E first \in 0..(Len(Cals) - 1), step \in CalSteps :
          LET cal == CalOf(ncoarse, first, step)
              gain == [c \in 0..(ncoarse - 1) |-> cal[c][1]]
              phase == [c \in 0..(ncoarse - 1) |-> cal[c][2]]
              sky == SkyOf(seed, T, ncoarse * cpc)
              obs == IF mixed THEN Forward(sky, gain, phase, cpc) ELSE sky
          IN  /\ args = [I |-> obs[1], Q |-> obs[2], U |-> obs[3], V |-> obs[4],
                         gain_offsets |-> gain, phase_offsets |-> phase,
                         chan_per_coarse |-> cpc]
              /\ world = [sky |-> sky, mixed |-> mixed]
    /\ ret = NoCall
    /\ files = <<>>
    /\ pc = "idle"
    /\ frame = None
    /\ stages = <<>>

CallApplyMueller ==
    /\ called = "none"
    /\ called' = "apply_Mueller"
    /\ ret' = apply_Mueller(args.I, args.Q, args.U, args.V, args.gain_offsets,
                            args.phase_offsets, args.chan_per_coarse)
    /\ UNCHANGED <<args, files, pc, frame, stages, world>>

NextMueller == CallApplyMueller

SpecMueller == InitMueller /\ [][NextMueller]_vars

RECURSIVE SumSet(_, _)
\* the sum of data over the index set S
SumSet(data, S) ==
    IF S = {} THEN Rat(0)
    ELSE LET i == CHOOSE x \in S : TRUE IN
         RAdd(data[i], SumSet(data, S \ {i}))

\* ------------------------------------------------------ collaborators
\* A file on disk, and the handle Waterfall makes of it:
\* <<"Waterfall", data, tsamp, nchans, n_coarse_chan>>.
Missing == <<"missing">>
HData(h) == h[2]
HTsamp(h) == h[3]
HNchans(h) == h[4]
HNcoarse(h) == h[5]
WithData(h, d) == <<h[1], d, h[3], h[4], h[5]>>

\* Waterfall(path, max_load=150): the handle of the file, or IOError
Waterfall(path, w) ==
    IF w.disk[path] = Missing THEN Raise("IOError") ELSE Ok(w.disk[path])

\* the mean over the time samples in S of a (time, 1, channel) array
TimeMean(data, S) ==
    [f \in DOMAIN data[0][0] |->
        RDiv(SumSet([t \in S |-> data[t][0][f]], S), Rat(Cardinality(S)))]

\* foldcal(data, tsamp): <<OFF, ON>>, the per-channel means over the samples
\* taken with the diode off and over those taken with it on (w.diode_on);
\* `call` names the call, which fails with the fold's own error when the
\* fold cannot find the diode
foldcal(data, tsamp, w, call) ==
    IF w.fault = call THEN Raise("FoldError")
    ELSE Ok(<<TimeMean(data, DOMAIN data \ w.diode_on),
              TimeMean(data, (DOMAIN data) \cap w.diode_on)>>)

\* handle.write_to_fil(name): the file is on disk afterwards, or IOError
write_to_fil(h, name, w, fs) ==
    IF w.fault = "write" THEN [ret |-> Raise("IOError"), files |-> fs]
    ELSE [ret |-> Ok(None),
          files |-> fs \o <<[name |-> name, data |-> HData(h)]>>]

\* ------------------------------------------ gain_offsets, phase_offsets
HalfSum(a, b) == RDiv(RAdd(a, b), Rat(2))
HalfDiff(a, b) == RDiv(RSub(a, b), Rat(2))
GainRatio(xx, yy) == RDiv(RSub(xx, yy), RAdd(xx, yy))

\* np.arctan2(v, u) in units of atan2(3, 4): the k with (u, v) a positive
\* multiple of (4 + 3i)^k; the diode scans of this model hold no other
\* direction
NpArctan2(v, u) ==
    CASE IsNaN(v) \/ IsNaN(u) -> NaN
      [] IsFinite(v) /\ IsFinite(u) /\ v[1] = 0 /\ u[1] >= 0 -> Rat(0)
      [] IsFinite(v) /\ IsFinite(u) /\ v[1] # 0 /\ u[1] > 0 ->
            Rat(CHOOSE k \in {-2, -1, 1, 2} :
                    LET r == CisPow(Abs(k)) IN
                    RMul(u, Rat(Sign(k) * r[2])) = RMul(v, Rat(r[1])))

Cell1(op, a, b) ==
    CASE op = "half_sum" -> HalfSum(a, b)
      [] op = "half_diff" -> HalfDiff(a, b)
      [] op = "gain_ratio" -> GainRatio(a, b)
      [] op = "minus" -> RSub(a, b)
      [] op = "arctan2" -> NpArctan2(a, b)

\* elementwise arithmetic on two 1-d arrays
Map1(a, b, op) == [f \in DOMAIN a |-> Cell1(op, a[f], b[f])]

\* a failure of the second fold is swallowed and the fold taken again
gain_offsets_retry(Idat, Qdat, tsamp, chan_per_coarse, w) ==
    LET i == foldcal(Idat, tsamp, w, "fold1")
        q == foldcal(Qdat, tsamp, [w EXCEPT !.fault = "none"], "fold2")
    IN  IF i.status # "ok" THEN i
        ELSE convert_to_coarse(
                 Map1(Map1(i.value[1], q.value[1], "half_sum"),
                      Map1(i.value[1], q.value[1], "half_diff"), "gain_ratio"),
                 chan_per_coarse)

gain_offsets(Idat, Qdat, tsamp, chan_per_coarse, w) ==
    LET i == foldcal(Idat, tsamp, w, "fold1") IN
    IF i.status # "ok" THEN i
    ELSE LET q == foldcal(Qdat, tsamp, w, "fold2") IN
         IF q.status # "ok" THEN q
         ELSE LET XX_ON  == Map1(i.value[2], q.value[2], "half_sum")
                  XX_OFF == Map1(i.value[1], q.value[1], "half_sum")
                  YY_ON  == Map1(i.value[2], q.value[2], "half_diff")
                  YY_OFF == Map1(i.value[1], q.value[1], "half_diff")
                  G      == Map1(XX_OFF, YY_OFF, "gain_ratio")
              IN  convert_to_coarse(G, chan_per_coarse)

phase_offsets(Udat, Vdat, tsamp, chan_per_coarse, w) ==
    LET u == foldcal(Udat, tsamp, w, "fold3") IN
    IF u.status # "ok" THEN u
    ELSE LET v == foldcal(Vdat, tsamp, w, "fold4") IN
         IF v.status # "ok" THEN v
         ELSE LET Udiff == Map1(u.value[2], u.value[1], "minus")
                  Vdiff == Map1(v.value[2], v.value[1], "minus")
              IN  convert_to_coarse(Map1(Vdiff, Udiff, "arctan2"),
                                    chan_per_coarse)

\* ------------------------------------------------------ calibrate_pols
NoFrame ==
    [obs |-> None, cross_dat |-> None, tsamp |-> None,
     dio_chan_per_coarse |-> None, Idat |-> None, Qdat |-> None,
     Udat |-> None, Vdat |-> None, gams |-> None, psis |-> None,
     cross_obs |-> None, obs_chan_per_coarse |-> None,
     I |-> None, Q |-> None, U |-> None, V |-> None]

\* a step that raises: the exception leaves calibrate_pols as it is
Abort(r) ==
    /\ ret' = r
    /\ pc' = "raised"
    /\ UNCHANGED <<called, args, files, frame, stages, world>>

\* a step that completes the stage `stage` with the locals fr, going to `to`
Advance(fr, stage, to) ==
    /\ frame' = fr
    /\ stages' = Append(stages, stage)
    /\ pc' = to
    /\ UNCHANGED <<called, args, ret, files, world>>

\* lines 146-148
OpenDiode ==
    /\ pc = "L146"
    /\ LET r == Waterfall(args.diode_cross, world) IN
       IF r.status # "ok" THEN Abort(r)
       ELSE Advance([frame EXCEPT !.obs = r.value,
                                  !.cross_dat = HData(r.value),
                                  !.tsamp = HTsamp(r.value)],
                    "open_diode", "L151")

\* lines 151-156
DeriveDiode ==
    /\ pc = "L151"
    /\ LET cpc == HNchans(frame.obs) \div HNcoarse(frame.obs)
           r   == get_stokes(frame.cross_dat, args.feedtype)
       IN  IF r.status # "ok" THEN Abort(r)
           ELSE Advance([frame EXCEPT !.dio_chan_per_coarse = cpc,
                                      !.obs = None,
                                      !.Idat = r.value[1], !.Qdat = r.value[2],
                                      !.Udat = r.value[3], !.Vdat = r.value[4],
                                      !.cross_dat = None],
                        "stokes_diode", "L159")

\* line 159
GainOffsets ==
    /\ pc = "L159"
    /\ LET r == gain_offsets(frame.Idat, frame.Qdat, frame.tsamp,
                             frame.dio_chan_per_coarse, world)
       IN  IF r.status # "ok" THEN Abort(r)
           ELSE Advance([frame EXCEPT !.gams = r.value], "gain", "L160")

\* line 160
PhaseOffsets ==
    /\ pc = "L160"
    /\ LET r == phase_offsets(frame.Udat, frame.Vdat, frame.tsamp,
                              frame.dio_chan_per_coarse, world)
       IN  IF r.status # "ok" THEN Abort(r)
           ELSE Advance([frame EXCEPT !.psis = r.value], "phase", "L163")

\* the locals left by lines 163-165 alone: Vdat is still held
ClearDiode_keeps_Vdat(fr) ==
    [fr EXCEPT !.Idat = None, !.Qdat = None, !.Udat = None]

\* the locals after lines 163-166
ClearDiode(fr) ==
    [fr EXCEPT !.Idat = None, !.Qdat = None, !.Udat = None, !.Vdat = None]

\* lines 163-166
ReleaseDiode ==
    /\ pc = "L163"
    /\ Advance(ClearDiode(frame), "release_diode", "L170")

\* lines 170-173
OpenScience ==
    /\ pc = "L170"
    /\ LET r == Waterfall(args.cross_pols, world) IN
       IF r.status # "ok" THEN Abort(r)
       ELSE Advance([frame EXCEPT !.cross_obs = r.value,
                                  !.obs_chan_per_coarse =
                                      HNchans(r.value) \div HNcoarse(r.value)],
                    "open_science", "L176")

\* line 176
DeriveScience ==
    /\ pc = "L176"
    /\ LET r == get_stokes(HData(frame.cross_obs), args.feedtype) IN
       IF r.status # "ok" THEN Abort(r)
       ELSE Advance([frame EXCEPT !.I = r.value[1], !.Q = r.value[2],
                                  !.U = r.value[3], !.V = r.value[4]],
                    "stokes_science", "L179")

\* line 179, the call
MuellerCall(fr) ==
    apply_Mueller(fr.I, fr.Q, fr.U, fr.V, fr.gams, fr.psis,
                  fr.obs_chan_per_coarse)

\* line 179
ApplyMueller ==
    /\ pc = "L179"
    /\ LET r == MuellerCall(frame) IN
       IF r.status # "ok" THEN Abort(r)
       ELSE Advance([frame EXCEPT !.I = r.value[1], !.Q = r.value[2],
                                  !.U = r.value[3], !.V = r.value[4]],
                    "apply_Mueller", "L182")

\* cross_obs.data[:,s,:] = np.squeeze(X) for X = I, Q, U, V
Stacked(data, I, Q, U, V) ==
    LET st == <<I, Q, U, V>> IN
    [t \in DOMAIN data |-> [s \in DOMAIN data[t] |->
        [f \in DOMAIN data[t][s] |-> st[s + 1][t][0][f]]]]

\* lines 182-189
WriteOneFile ==
    /\ pc = "L182"
    /\ args.onefile
    /\ LET h == WithData(frame.cross_obs,
                         Stacked(HData(frame.cross_obs),
                                 frame.I, frame.Q, frame.U, frame.V))
           w == write_to_fil(h, ".SIQUV.polcal.fil", world, files)
       IN  /\ frame' = [frame EXCEPT !.cross_obs = h]
           /\ files' = w.files
           /\ stages' = Append(stages, "write")
           /\ ret' = w.ret
           /\ pc' = IF w.ret.status = "ok" THEN "returned" ELSE "raised"
    /\ UNCHANGED <<called, args, world>>

\* line 192: obs_I is no name of calibrate_pols (its parameter is obsI) nor
\* of the module, so the four writers of lines 193-207 are never reached
WriteFourFiles ==
    /\ pc = "L182"
    /\ ~args.onefile
    /\ Abort(Raise("NameError"))

\* ---------------------------------------------- inputs of calibrate_pols
\* what one coarse channel of a diode scan holds: the four products with the
\* diode off and with it on
DiodeCals == << [off |-> <<3, 1, 0, 0>>, on |-> <<4, 2, 4, -3>>],
                [off |-> <<1, 2, 0, 0>>, on |-> <<2, 3, 7, 24>>] >>

DiodeBlocks == {3, 4}

DiodeOn(T) == { t \in 0..(T - 1) : t % 2 = 1 }

\* a diode scan whose coarse channel c holds DiodeCals[first + c]
DiodeFile(first, ncoarse, cpc) ==
    LET cal(f) == DiodeCals[((first + (f \div cpc)) % Len(DiodeCals)) + 1] IN
    <<"Waterfall",
      [t \in 0..(MaxTime - 1) |-> [p \in 0..3 |->
          [f \in 0..(ncoarse * cpc - 1) |->
              Rat(IF t % 2 = 1 THEN cal(f).on[p + 1] ELSE cal(f).off[p + 1])]]],
      1, ncoarse * cpc, ncoarse>>

DiodeFiles ==
    { DiodeFile(first, ncoarse, cpc) :
        first \in 0..(Len(DiodeCals) - 1), ncoarse \in 1..MaxCoarse,
        cpc \in DiodeBlocks }

ScienceFile(ncoarse, cpc) ==
    <<"Waterfall",
      [t \in 0..(MaxTime - 1) |-> [p \in 0..3 |->
          [f \in 0..(ncoarse * cpc - 1) |-> Rat(10 * p + 3 * t + f + 1)]]],
      1, ncoarse * cpc, ncoarse>>

ScienceFiles ==
    { ScienceFile(ncoarse, cpc) : ncoarse \in 1..MaxCoarse, cpc \in 1..MaxBlock }

Faults == {"none", "diode_missing", "science_missing",
           "fold1", "fold2", "fold3", "fold4", "write"}

InitPipeline ==
    /\ called = "calibrate_pols"
    /\ args \in [cross_pols : {"science"}, diode_cross : {"diode"},
                 onefile : BOOLEAN, feedtype : Feedtypes]
    /\ \E d \in DiodeFiles, sc \in ScienceFiles, fault \in Faults :
          world = [disk |-> [diode |-> IF fault = "diode_missing"
                                        THEN Missing ELSE d,
                             science |-> IF fault = "science_missing"
                                          THEN Missing ELSE sc],
                   fault |-> fault,
                   diode_on |-> DiodeOn(MaxTime)]
    /\ ret = NoCall
    /\ files = <<>>
    /\ pc = "L146"
    /\ frame = NoFrame
    /\ stages = <<>>

NextPipeline ==
    \/ OpenDiode
    \/ DeriveDiode
    \/ GainOffsets
    \/ PhaseOffsets
    \/ ReleaseDiode
    \/ OpenScience
    \/ DeriveScience
    \/ ApplyMueller
    \/ WriteOneFile
    \/ WriteFourFiles

SpecPipeline == InitPipeline /\ [][NextPipeline]_vars

\* ======================================================================
\* Claims about get_stokes, fracpols and write_polfils (SpecStokes)
\* ======================================================================
ValidFeeds == {"linear", "circular"}

\* whether X has the shape (time, 1, channel) of the cube it was derived from
SameShape(X, cube) ==
    /\ DOMAIN X = DOMAIN cube
    /\ \A t \in DOMAIN X :
          /\ DOMAIN X[t] = {0}
          /\ DOMAIN X[t][0] = DOMAIN cube[t][0]

Cells(cube) == { <<t, f>> : t \in DOMAIN cube, f \in DOMAIN cube[0][0] }

Prod(cube, p, tf) == cube[tf[1]][p][tf[2]]

\* the Stokes values the claim gives for one cell
StokesExpected(cube, feedtype, tf) ==
    IF feedtype = "linear"
    THEN <<RAdd(Prod(cube, 0, tf), Prod(cube, 1, tf)),
           RSub(Prod(cube, 0, tf), Prod(cube, 1, tf)),
           RMul(Rat(2), Prod(cube, 2, tf)),
           RMul(Rat(-2), Prod(cube, 3, tf))>>
    ELSE <<RAdd(Prod(cube, 0, tf), Prod(cube, 1, tf)),
           RMul(Rat(2), Prod(cube, 2, tf)),
           RMul(Rat(-2), Prod(cube, 3, tf)),
           RSub(Prod(cube, 1, tf), Prod(cube, 0, tf))>>

StokesAsClaimed(out, cube, feedtype) ==
    /\ \A s \in 1..4 : SameShape(out[s], cube)
    /\ \A tf \in Cells(cube) : \A s \in 1..4 :
          out[s][tf[1]][0][tf[2]] = StokesExpected(cube, feedtype, tf)[s]

\* C2: for feedtype 'linear' and for feedtype 'circular', get_stokes returns
\* I, Q, U, V of shape (time, 1, channel) holding, cell by cell, the claim's
\* combination of the four products.
C2_StokesFormulas ==
    (called = "get_stokes" /\ args.feedtype \in ValidFeeds) =>
        /\ ret.status = "ok"
        /\ StokesAsClaimed(ret.value, args.cross_dat, args.feedtype)

\* C2, the part the code keeps: the linear formulas, cell by cell.
C2_LinearFormulas ==
    (called = "get_stokes" /\ args.feedtype = "linear") =>
        /\ ret.status = "ok"
        /\ StokesAsClaimed(ret.value, args.cross_dat, "linear")

\* C9: a feed convention other than 'linear' and 'circular' makes get_stokes
\* raise ValueError with no Stokes array returned; 'linear' and 'circular'
\* never raise ValueError.
C9_InvalidFeed ==
    called = "get_stokes" =>
        /\ args.feedtype \notin ValidFeeds =>
              /\ ret.status = "error"
              /\ ret.error = "ValueError"
              /\ ret.value = None
        /\ args.feedtype \in ValidFeeds => ret.error # "ValueError"

C9_Witness ==
    /\ called = "get_stokes"
    /\ args.feedtype = "hyptrig"
    /\ ret.error = "ValueError"

\* the pair (L/I, V/I) of the claim, L >= 0 with L^2 = Q^2 + U^2, cell by cell
FractionsAsClaimed(lin, circ, st) ==
    \A t \in DOMAIN st[1] : \A f \in DOMAIN st[1][t][0] :
        LET i == st[1][t][0][f]
            q == st[2][t][0][f]
            u == st[3][t][0][f]
            v == st[4][t][0][f]
            l == RMul(lin[t][0][f], i)
        IN  /\ circ[t][0][f] = RDiv(v, i)
            /\ RMul(l, l) = RAdd(RMul(q, q), RMul(u, u))
            /\ l[1] >= 0

\* C10: where get_stokes derives Stokes parameters for the input, fracpols
\* returns (L/I, V/I) computed from them, and write_polfils writes the first
\* to '.linpol.fil' and the second to '.circpol.fil'.
C10_Fractions ==
    LET st == get_stokes(args.cross_dat, args.feedtype) IN
    (called \in {"fracpols", "write_polfils"} /\ st.status = "ok") =>
        /\ called = "fracpols" =>
              /\ ret.status = "ok"
              /\ FractionsAsClaimed(ret.value[1], ret.value[2], st.value)
        /\ called = "write_polfils" =>
              /\ Len(files) = 2
              /\ files[1].name = ".linpol.fil"
              /\ files[2].name = ".circpol.fil"
              /\ FractionsAsClaimed(files[1].data, files[2].data, st.value)

\* ======================================================================
\* Claims about convert_to_coarse (SpecCoarse)
\* ======================================================================
\* C3: for chan_per_coarse >= 4 dividing the length, element c of the result
\* is the mean of the fine channels c*chan_per_coarse + k, 2 <= k <
\* chan_per_coarse - 1, and the result has length n_fine / chan_per_coarse.
C3_TrimmedMean ==
    LET n == Size(args.data)
        w == args.chan_per_coarse
    IN  (called = "convert_to_coarse" /\ w >= 4 /\ n % w = 0) =>
            /\ ret.status = "ok"
            /\ DOMAIN ret.value = 0..((n \div w) - 1)
            /\ \A c \in DOMAIN ret.value :
                  ret.value[c] =
                      RDiv(SumSet(args.data, { c * w + k : k \in 2..(w - 2) }),
                           Rat(w - 3))

C3_Witness ==
    /\ called = "convert_to_coarse"
    /\ args.chan_per_coarse = 4
    /\ Size(args.data) = 8
    /\ ret.status = "ok"
    /\ ret.value[0] = Rat(1)
    /\ ret.value[1] = Rat(0)
    /\ args.data[7] = Rat(1)

\* C8: for chan_per_coarse <= 3 convert_to_coarse fails; it returns neither
\* an empty array nor an array of NaN.
C8_SmallBlockFails ==
    (called = "convert_to_coarse" /\ args.chan_per_coarse <= 3) =>
        ret.status = "error"

\* ======================================================================
\* Claims about apply_Mueller (SpecMueller)
\* ======================================================================
MagnitudeOne(g) == g = Rat(1) \/ g = Rat(-1)

\* |g| < 9/10
Below09(g) == IsFinite(g) /\ 10 * Abs(g[1]) < 9 * g[2]

\* C1: with no gain of magnitude 1, the output has the input's shape and its
\* value at (t, f) is the claim's formula on the inputs at (t, f) with the
\* gain and phase of coarse channel f div chan_per_coarse.
C1_PerCoarseChannel ==
    (called = "apply_Mueller"
        /\ \A c \in DOMAIN args.gain_offsets : ~MagnitudeOne(args.gain_offsets[c])) =>
        /\ ret.status = "ok"
        /\ \A s \in 1..4 :
              /\ DOMAIN ret.value[s] = DOMAIN args.I
              /\ \A t \in DOMAIN args.I :
                    /\ DOMAIN ret.value[s][t] = DOMAIN args.I[t]
                    /\ DOMAIN ret.value[s][t][0] = DOMAIN args.I[t][0]
        /\ \A t \in DOMAIN args.I : \A f \in DOMAIN args.I[t][0] :
              LET c == f \div args.chan_per_coarse
                  g == args.gain_offsets[c]
                  p == args.phase_offsets[c]
                  i == args.I[t][0][f]
                  q == args.Q[t][0][f]
                  u == args.U[t][0][f]
                  v == args.V[t][0][f]
                  d == RSub(Rat(1), RMul(g, g))
              IN  /\ ret.value[1][t][0][f] = RDiv(RSub(i, RMul(g, q)), d)
                  /\ ret.value[2][t][0][f] = RDiv(RSub(q, RMul(g, i)), d)
                  /\ ret.value[3][t][0][f] =
                        RAdd(RMul(u, NpCos(p)), RMul(v, NpSin(p)))
                  /\ ret.value[4][t][0][f] =
                        RAdd(RNeg(RMul(u, NpSin(p))), RMul(v, NpCos(p)))

C1_Witness ==
    /\ called = "apply_Mueller"
    /\ ret.status = "ok"
    /\ args.chan_per_coarse = 2
    /\ Size(args.gain_offsets) = 2
    /\ args.gain_offsets[0] = <<1, 2>>
    /\ args.gain_offsets[1] = <<-1, 3>>
    /\ Size(args.I) = 2

\* C6: apply_Mueller undoes the forward mixing for gains in (-0.9, 0.9), and
\* with gain 0 and phase 0 in every coarse channel it returns its input.
C6_RoundTrip ==
    called = "apply_Mueller" =>
        /\ (world.mixed
              /\ \A c \in DOMAIN args.gain_offsets : Below09(args.gain_offsets[c])) =>
              /\ ret.status = "ok"
              /\ ret.value = world.sky
        /\ (\A c \in DOMAIN args.gain_offsets :
                /\ args.gain_offsets[c] = Rat(0)
                /\ args.phase_offsets[c] = Rat(0)) =>
              /\ ret.status = "ok"
              /\ ret.value = <<args.I, args.Q, args.U, args.V>>

C6_Witness ==
    /\ called = "apply_Mueller"
    /\ world.mixed
    /\ Size(args.gain_offsets) = 2
    /\ args.gain_offsets[0] = <<1, 2>>
    /\ args.phase_offsets[0] = Rat(1)
    /\ args.gain_offsets[1] = <<-1, 3>>
    /\ args.I # world.sky[1]
    /\ args.U # world.sky[3]
    /\ ret.value = world.sky

\* C7: a gain of magnitude exactly 1 makes apply_Mueller fail; it returns no
\* arrays.
C7_UnitGainFails ==
    (called = "apply_Mueller"
        /\ \E c \in DOMAIN args.gain_offsets : MagnitudeOne(args.gain_offsets[c])) =>
        ret.status = "error"

\* ======================================================================
\* Claims about calibrate_pols (SpecPipeline)
\* ======================================================================
StageOrder ==
    <<"open_diode", "stokes_diode", "gain", "phase", "release_diode",
      "open_science", "stokes_science", "apply_Mueller", "write">>

InOrder == stages = SubSeq(StageOrder, 1, Len(stages))

DiodeReleased ==
    /\ frame.obs = None
    /\ frame.cross_dat = None
    /\ frame.Idat = None
    /\ frame.Qdat = None
    /\ frame.Udat = None
    /\ frame.Vdat = None

\* the corrected cube as a function of the science file, gams and psis alone
FromScienceAndCalibration ==
    LET sc == world.disk[args.cross_pols]
        st == get_stokes(HData(sc), args.feedtype).value
    IN  apply_Mueller(st[1], st[2], st[3], st[4], frame.gams, frame.psis,
                      HNchans(sc) \div HNcoarse(sc)).value

\* C4: the stages of calibrate_pols complete in the order open diode, derive,
\* gain, phase, release, open science, derive, correct, write, with none
\* skipped; from the release on no diode-scan buffer is held; and the
\* corrected cube is determined by the science scan, gams and psis alone.
C4_StageOrder ==
    called = "calibrate_pols" =>
        /\ InOrder
        /\ Len(stages) \in 1..4 => ~DiodeReleased
        /\ Len(stages) >= 5 => DiodeReleased
        /\ Len(stages) >= 8 =>
              <<frame.I, frame.Q, frame.U, frame.V>> = FromScienceAndCalibration

C4_Witness ==
    /\ called = "calibrate_pols"
    /\ pc = "returned"
    /\ stages = StageOrder
    /\ Len(files) = 1
    /\ Size(frame.gams) = 2

FoldFaults == {"fold1", "fold2", "fold3", "fold4"}

\* C5: a writer is invoked only after both opens, both derivations, the gain
\* and phase estimation and the correction have succeeded; a failing stage
\* ends the run with its own error, nothing further runs, and no file has
\* been written; a run that returns met no failure.
C5_WriteLast ==
    called = "calibrate_pols" =>
        /\ (files # <<>> \/ (stages # <<>> /\ stages[Len(stages)] = "write")) =>
              SubSeq(stages, 1, 8) = SubSeq(StageOrder, 1, 8)
        /\ pc = "raised" =>
              /\ ret.status = "error"
              /\ files = <<>>
              /\ ~ENABLED NextPipeline
              /\ (world.fault = "diode_missing") =>
                    (ret.error = "IOError" /\ stages = <<>>)
              /\ (world.fault \in FoldFaults /\ Len(stages) \in {2, 3}) =>
                    ret.error = "FoldError"
              /\ (world.fault = "science_missing" /\ Len(stages) = 5) =>
                    ret.error = "IOError"
        /\ pc = "returned" => (world.fault = "none" /\ Len(files) = 1)
        /\ world.fault \in FoldFaults => Len(stages) <= 3

C5_Witness ==
    /\ called = "calibrate_pols"
    /\ pc = "raised"
    /\ world.fault = "fold4"
    /\ ret.error = "FoldError"
    /\ stages = <<"open_diode", "stokes_diode", "gain">>
    /\ files = <<>>

=============================================================================
